---- MODULE Spec2Model ----
(***************************************************************************)
(* The OCPP charging-station simulator: the Automatic Transaction          *)
(* Generator (AutomaticTransactionGenerator.ts) with its per-connector     *)
(* loops, and the worker broadcast channel dispatcher                      *)
(* (ChargingStationWorkerBroadcastChannel.ts).                             *)
(*                                                                         *)
(* JavaScript runs one callback to its next await at a time, so one action *)
(* is one run of a callback from a suspension point to the next one.       *)
(***************************************************************************)
EXTENDS Integers, Sequences, FiniteSets, Bags, TLC

\* ------------------------------------------------------------------ bounds
\* Highest connector id of the station; connector 0 is the station itself.
MaxConnectorId == 2
\* The clock reads 0..MaxTime.
MaxTime == 2
\* Loop tasks (scheduled or suspended) alive at one time.
MaxTasks == 2

\* Skipped transactions one loop counts.
MaxSkips == 1

\* A Date field that was never assigned (startDate!, lastRunDate!, stopDate!).
NoDate == -1

\* The connector tables a station's template can give it.
ConnectorTables == {0 .. n : n \in 1 .. MaxConnectorId}

VARIABLES
  \* AutomaticTransactionGenerator
  started, connectorsStartStatus, startDate, lastRunDate, stopDate,
  \* the startConnector() promises that have not settled: a bag of
  \* [connectorId, pc, transactionId, skippedTransactions,
  \* skippedTransactionsTotal], pc the await the loop is suspended in
  tasks,
  \* new Date()
  now,
  \* ChargingStation: connectors (the ids of its table), isRegistered(), isChargingStationAvailable(),
  \* isConnectorAvailable(c), ocppRequestService, hasAuthorizedTags(),
  \* getAutomaticTransactionGeneratorRequireAuthorize(), probabilityOfStart
  station,
  \* getConnector(c).transactionStarted / .transactionId, and the last
  \* transaction id the CSMS gave out
  transactionStarted, transactionId, lastTransactionId,
  \* the ATG operation that ran last: "start", "stop", "raised" (an awaited
  \* OCPP request of a loop raised OCPPError) or "other"
  op,
  \* the running time of the runs before the current one, as start() read it:
  \* the sum of lastRunDate - startDate over them
  consumed,
  \* ChargingStationWorkerBroadcastChannel: the message events delivered to
  \* onmessage, by uuid; the commandHandler() promises, by uuid; the
  \* envelopes sendResponse() has posted, in order
  requests, handlers, published,
  \* one call of commandResponseToResponseStatus: its arguments and result
  classification

atgVars == <<started, connectorsStartStatus, startDate, lastRunDate, stopDate, tasks>>
connectorVars == <<transactionStarted, transactionId, lastTransactionId>>
envVars == <<now, station, transactionStarted, transactionId, lastTransactionId>>
bcVars == <<requests, handlers, published>>
vars == <<started, connectorsStartStatus, startDate, lastRunDate, stopDate, tasks,
          now, station, transactionStarted, transactionId, lastTransactionId, op,
          consumed,
          requests, handlers, published, classification>>

Connectors == station.connectors
\* stationInfo.AutomaticTransactionGenerator.stopAfterHours, in clock units.
stopAfterHours == station.stopAfterHours
PositiveConnectors == {c \in Connectors : c > 0}

\* Utils.secureRandom() and probabilityOfStart, both in halves: r in [0, 1).
Draws == {0, 1}
Probabilities == {0, 1, 2}

\* AuthorizationStatus
ACCEPTED == "Accepted"
BLOCKED == "Blocked"
AuthorizationStatus == {ACCEPTED, BLOCKED}
\* An awaited OCPP request returns a response or raises OCPPError.
OCPPError == "OCPPError"
\* CSMS transaction ids.
MaxTransactionId == 1

Task(c, pc, id) ==
  [connectorId |-> c, pc |-> pc, transactionId |-> id,
   skippedTransactions |-> 0, skippedTransactionsTotal |-> 0]
\* The loop suspends in pc, awaiting the response about transaction id.
Suspend(loop, pc, id) == [loop EXCEPT !.pc = pc, !.transactionId = id]
Add(bag, task) == bag (+) SetToBag({task})
Remove(bag, task) == bag (-) SetToBag({task})

\* ---------------------------------------------------------- ATG controller
stopConnector(status, connectorId) == [status EXCEPT ![connectorId] = FALSE]

RECURSIVE stopConnectorsFrom(_, _)
stopConnectorsFrom(status, ids) ==
  IF ids = {} THEN status
  ELSE LET connectorId == CHOOSE c \in ids : TRUE
       IN stopConnectorsFrom(
            IF connectorId > 0 THEN stopConnector(status, connectorId) ELSE status,
            ids \ {connectorId})

stopConnectors(status) == stopConnectorsFrom(status, Connectors)

RECURSIVE startConnectorsFrom(_, _)
startConnectorsFrom(bag, ids) ==
  IF ids = {} THEN bag
  ELSE LET connectorId == CHOOSE c \in ids : TRUE
       IN startConnectorsFrom(
            IF connectorId > 0 THEN Add(bag, Task(connectorId, "scheduled", 0)) ELSE bag,
            ids \ {connectorId})

\* setImmediate(() => startConnector(connectorId)) for every connector id > 0
startConnectors(bag) == startConnectorsFrom(bag, Connectors)

previousRunDuration ==
  IF startDate # NoDate /\ lastRunDate # NoDate THEN lastRunDate - startDate ELSE 0

\* start() without its guard on this.started.
startUnguarded ==
  /\ BagCardinality(tasks) + Cardinality(PositiveConnectors) <= MaxTasks
  /\ op' = "start"
  /\ startDate' = now
  /\ lastRunDate' = now
  /\ stopDate' = now + stopAfterHours - previousRunDuration
  /\ tasks' = startConnectors(tasks)
  /\ started' = TRUE
  /\ consumed' = consumed + previousRunDuration
  /\ UNCHANGED connectorsStartStatus

\* start(), on the generator's own fields.
start ==
  /\ started \/ BagCardinality(tasks) + Cardinality(PositiveConnectors) <= MaxTasks
  /\ op' = "start"
  /\ IF started
       THEN UNCHANGED <<atgVars, consumed>>
       ELSE /\ consumed' = consumed + previousRunDuration
            /\ startDate' = now
            /\ lastRunDate' = now
            /\ stopDate' = now + stopAfterHours - previousRunDuration
            /\ tasks' = startConnectors(tasks)
            /\ started' = TRUE
            /\ UNCHANGED connectorsStartStatus

\* stop(), on the generator's own fields.
stop ==
  /\ op' = "stop"
  /\ UNCHANGED consumed
  /\ IF ~started
       THEN UNCHANGED atgVars
       ELSE /\ connectorsStartStatus' = stopConnectors(connectorsStartStatus)
            /\ started' = FALSE
            /\ UNCHANGED <<startDate, lastRunDate, stopDate, tasks>>

\* stop() called from inside a loop: what connectorsStartStatus becomes.
stopStatus(isStarted, status) == IF ~isStarted THEN status ELSE stopConnectors(status)

\* -------------------------------------------------------- connector loop
\* The head of one iteration of while (connectorsStartStatus[connectorId]):
\* the exit taken, or the sleep the iteration suspends in.
whileHead(connectorId, status) ==
  IF ~status[connectorId] THEN "flagCleared"
  ELSE IF now > stopDate THEN "deadline"
  ELSE IF ~station.registered THEN "notRegistered"
  ELSE IF ~station.available THEN "stationUnavailable"
  ELSE IF ~station.connectorAvailable[connectorId] THEN "connectorUnavailable"
  ELSE IF ~station.service THEN "initPoll"
  ELSE "delay"

\* A loop in which every exit taken at the head calls this.stop().
EveryHeadExit == {"deadline", "notRegistered", "stationUnavailable", "connectorUnavailable"}

\* The exits that call this.stop() before break.
StopExits == {"deadline", "stationUnavailable"}

\* stopTransaction(connectorId): sends StopTransaction and suspends in pc when
\* the connector has a transaction; dereferencing an absent ocppRequestService
\* raises TypeError, which rejects the loop's promise.
stopTransaction(rest, loop, pc, txStarted, txId) ==
  IF txStarted[loop.connectorId] /\ station.service
    THEN Add(rest, Suspend(loop, pc, txId[loop.connectorId]))
    ELSE rest

\* The loop without the stopTransaction(connectorId) that follows the while.
startConnectorLoopWithoutFinalStop(rest, loop, status, txStarted, txId) ==
  LET head == whileHead(loop.connectorId, status)
  IN /\ started' = IF head \in StopExits THEN FALSE ELSE started
     /\ connectorsStartStatus' =
          IF head \in StopExits THEN stopStatus(started, status) ELSE status
     /\ tasks' = IF head \in {"initPoll", "delay"}
                   THEN Add(rest, Suspend(loop, head, 0))
                   ELSE rest
     /\ UNCHANGED <<startDate, stopDate>>

\* The loop from the head of its next iteration, the other tasks being rest:
\* it suspends in a sleep, or leaves the loop and runs the trailing
\* stopTransaction(connectorId).
startConnectorLoop(rest, loop, status, txStarted, txId) ==
  LET head == whileHead(loop.connectorId, status)
  IN /\ started' = IF head \in StopExits THEN FALSE ELSE started
     /\ connectorsStartStatus' =
          IF head \in StopExits THEN stopStatus(started, status) ELSE status
     /\ tasks' = IF head \in {"initPoll", "delay"}
                   THEN Add(rest, Suspend(loop, head, 0))
                   ELSE stopTransaction(rest, loop, "finalStopTransaction",
                                        txStarted, txId)
     /\ UNCHANGED <<startDate, stopDate>>

\* startTransaction(connectorId) up to its first await.
startTransaction(rest, loop) ==
  IF ~station.service THEN rest
  ELSE IF station.hasAuthorizedTags /\ station.requireAuthorize
    THEN Add(rest, Suspend(loop, "sendAuthorize", 0))
    ELSE Add(rest, Suspend(loop, "sendStartTransaction", 0))

\* The setImmediate callback: startConnector(connectorId) to its first await.
startConnector(task) ==
  /\ task.pc = "scheduled"
  /\ lastRunDate' = lastRunDate
  /\ startConnectorLoop(Remove(tasks, task), task,
                        [connectorsStartStatus EXCEPT ![task.connectorId] = TRUE],
                        transactionStarted, transactionId)
  /\ op' = "other"
  /\ UNCHANGED envVars

\* do { await sleep(INITIALIZATION_TIME) } while (!ocppRequestService)
initPollWake(task) ==
  /\ task.pc = "initPoll"
  /\ tasks' = IF station.service
                THEN Add(Remove(tasks, task), Suspend(task, "delay", 0))
                ELSE tasks
  /\ op' = "other"
  /\ UNCHANGED <<started, connectorsStartStatus, startDate, lastRunDate, stopDate>>
  /\ UNCHANGED envVars

\* The delay sleep returns in a loop that starts a transaction when
\* r <= probabilityOfStart.
delayWakeInclusive(task, r) ==
  /\ task.pc = "delay"
  /\ IF r <= station.probabilityOfStart
       THEN /\ tasks' = startTransaction(Remove(tasks, task),
                                         [task EXCEPT !.skippedTransactions = 0])
            /\ UNCHANGED <<started, connectorsStartStatus, startDate, lastRunDate, stopDate>>
       ELSE /\ task.skippedTransactionsTotal < MaxSkips
            /\ lastRunDate' = now
            /\ startConnectorLoop(Remove(tasks, task),
                                  [task EXCEPT !.skippedTransactions = @ + 1,
                                               !.skippedTransactionsTotal = @ + 1],
                                  connectorsStartStatus, transactionStarted, transactionId)
  /\ op' = "other"
  /\ UNCHANGED envVars

\* await sleep(wait) returns; r is Utils.secureRandom().
delayWake(task, r) ==
  /\ task.pc = "delay"
  /\ IF r < station.probabilityOfStart
       THEN /\ tasks' = startTransaction(Remove(tasks, task),
                                         [task EXCEPT !.skippedTransactions = 0])
            /\ UNCHANGED <<started, connectorsStartStatus, startDate, lastRunDate, stopDate>>
       ELSE /\ task.skippedTransactionsTotal < MaxSkips
            /\ lastRunDate' = now
            /\ startConnectorLoop(Remove(tasks, task),
                                  [task EXCEPT !.skippedTransactions = @ + 1,
                                               !.skippedTransactionsTotal = @ + 1],
                                  connectorsStartStatus, transactionStarted, transactionId)
  /\ op' = "other"
  /\ UNCHANGED envVars

\* sendAuthorize returns or raises in a startTransaction that goes on to
\* StartTransaction whatever the status of the response.
authorizeReturnAnyStatus(task, result) ==
  /\ task.pc = "sendAuthorize"
  /\ tasks' = IF result = OCPPError
                THEN Remove(tasks, task)
                ELSE Add(Remove(tasks, task), Suspend(task, "sendStartTransaction", 0))
  /\ op' = IF result = OCPPError THEN "raised" ELSE "other"
  /\ UNCHANGED <<started, connectorsStartStatus, startDate, lastRunDate, stopDate>>
  /\ UNCHANGED envVars

\* sendAuthorize returns or raises.
authorizeReturn(task, result) ==
  /\ task.pc = "sendAuthorize"
  /\ tasks' = CASE result = ACCEPTED ->
                     IF station.service
                       THEN Add(Remove(tasks, task), Suspend(task, "sendStartTransaction", 0))
                       ELSE Remove(tasks, task)
                [] result = OCPPError -> Remove(tasks, task)
                [] OTHER -> Add(Remove(tasks, task), Suspend(task, "rejectSleep", 0))
  /\ op' = IF result = OCPPError THEN "raised" ELSE "other"
  /\ UNCHANGED <<started, connectorsStartStatus, startDate, lastRunDate, stopDate>>
  /\ UNCHANGED envVars

\* sendStartTransaction returns or raises in a generator that a raised
\* failure stops.
startTransactionReturnStopping(task, result) ==
  /\ task.pc = "sendStartTransaction"
  /\ tasks' = CASE result = ACCEPTED ->
                     Add(Remove(tasks, task), Suspend(task, "durationSleep", 0))
                [] result = OCPPError -> Remove(tasks, task)
                [] OTHER -> Add(Remove(tasks, task), Suspend(task, "rejectSleep", 0))
  /\ op' = IF result = OCPPError THEN "raised" ELSE "other"
  /\ IF result = ACCEPTED
       THEN /\ lastTransactionId < MaxTransactionId
            /\ lastTransactionId' = lastTransactionId + 1
            /\ transactionStarted' = [transactionStarted EXCEPT ![task.connectorId] = TRUE]
            /\ transactionId' = [transactionId EXCEPT ![task.connectorId] = lastTransactionId + 1]
       ELSE UNCHANGED <<transactionStarted, transactionId, lastTransactionId>>
  /\ IF result = OCPPError
       THEN /\ started' = FALSE
            /\ connectorsStartStatus' = stopStatus(started, connectorsStartStatus)
            /\ UNCHANGED <<startDate, lastRunDate, stopDate>>
       ELSE UNCHANGED <<started, connectorsStartStatus, startDate, lastRunDate, stopDate>>
  /\ UNCHANGED <<now, station>>

\* sendStartTransaction returns or raises; an accepted response has made the
\* response service open the transaction on the connector.
startTransactionReturn(task, result) ==
  /\ task.pc = "sendStartTransaction"
  /\ tasks' = CASE result = ACCEPTED ->
                     Add(Remove(tasks, task), Suspend(task, "durationSleep", 0))
                [] result = OCPPError -> Remove(tasks, task)
                [] OTHER -> Add(Remove(tasks, task), Suspend(task, "rejectSleep", 0))
  /\ op' = IF result = OCPPError THEN "raised" ELSE "other"
  /\ IF result = ACCEPTED
       THEN /\ lastTransactionId < MaxTransactionId
            /\ lastTransactionId' = lastTransactionId + 1
            /\ transactionStarted' = [transactionStarted EXCEPT ![task.connectorId] = TRUE]
            /\ transactionId' = [transactionId EXCEPT ![task.connectorId] = lastTransactionId + 1]
       ELSE UNCHANGED <<transactionStarted, transactionId, lastTransactionId>>
  /\ UNCHANGED <<started, connectorsStartStatus, startDate, lastRunDate, stopDate>>
  /\ UNCHANGED <<now, station>>

\* await sleep(CHARGING_STATION_ATG_WAIT_TIME) returns.
rejectWake(task) ==
  /\ task.pc = "rejectSleep"
  /\ lastRunDate' = now
  /\ startConnectorLoop(Remove(tasks, task), task,
                        connectorsStartStatus, transactionStarted, transactionId)
  /\ op' = "other"
  /\ UNCHANGED envVars

\* The duration sleep returns in a loop that calls stopTransaction only while
\* its flag is set.
durationWakeUnlessStopped(task) ==
  /\ task.pc = "durationSleep"
  /\ IF transactionStarted[task.connectorId] /\ connectorsStartStatus[task.connectorId]
       THEN /\ tasks' = stopTransaction(Remove(tasks, task), task,
                                        "sendStopTransaction", transactionStarted,
                                        transactionId)
            /\ UNCHANGED <<started, connectorsStartStatus, startDate, lastRunDate, stopDate>>
       ELSE /\ lastRunDate' = now
            /\ startConnectorLoop(Remove(tasks, task), task,
                                  connectorsStartStatus, transactionStarted, transactionId)
  /\ op' = "other"
  /\ UNCHANGED envVars

\* await sleep(waitTrxEnd) returns: stopTransaction(connectorId) in the loop.
durationWake(task) ==
  /\ task.pc = "durationSleep"
  /\ IF transactionStarted[task.connectorId]
       THEN /\ tasks' = stopTransaction(Remove(tasks, task), task,
                                        "sendStopTransaction", transactionStarted,
                                        transactionId)
            /\ UNCHANGED <<started, connectorsStartStatus, startDate, lastRunDate, stopDate>>
       ELSE /\ lastRunDate' = now
            /\ startConnectorLoop(Remove(tasks, task), task,
                                  connectorsStartStatus, transactionStarted, transactionId)
  /\ op' = "other"
  /\ UNCHANGED envVars

\* The response service closes the transaction an accepted StopTransaction names.
closeStarted(id, result) ==
  [c \in Connectors |->
     IF result = ACCEPTED /\ transactionId[c] = id THEN FALSE ELSE transactionStarted[c]]
closeId(id, result) ==
  [c \in Connectors |->
     IF result = ACCEPTED /\ transactionId[c] = id THEN 0 ELSE transactionId[c]]

\* sendStopTransaction of the loop body returns or raises.
stopTransactionReturn(task, result) ==
  /\ task.pc = "sendStopTransaction"
  /\ IF result = OCPPError
       THEN /\ tasks' = Remove(tasks, task)
            /\ UNCHANGED <<started, connectorsStartStatus, startDate, lastRunDate, stopDate>>
            /\ UNCHANGED connectorVars
       ELSE /\ UNCHANGED lastTransactionId
            /\ transactionStarted' = closeStarted(task.transactionId, result)
            /\ transactionId' = closeId(task.transactionId, result)
            /\ lastRunDate' = now
            /\ startConnectorLoop(Remove(tasks, task), task,
                                  connectorsStartStatus,
                                  closeStarted(task.transactionId, result),
                                  closeId(task.transactionId, result))
  /\ op' = IF result = OCPPError THEN "raised" ELSE "other"
  /\ UNCHANGED <<now, station>>

\* sendStopTransaction of the trailing stopTransaction returns or raises:
\* startConnector is over.
finalStopTransactionReturn(task, result) ==
  /\ task.pc = "finalStopTransaction"
  /\ tasks' = Remove(tasks, task)
  /\ IF result = OCPPError
       THEN UNCHANGED connectorVars
       ELSE /\ UNCHANGED lastTransactionId
            /\ transactionStarted' = closeStarted(task.transactionId, result)
            /\ transactionId' = closeId(task.transactionId, result)
  /\ op' = IF result = OCPPError THEN "raised" ELSE "other"
  /\ UNCHANGED <<started, connectorsStartStatus, startDate, lastRunDate, stopDate>>
  /\ UNCHANGED <<now, station>>

Results == AuthorizationStatus \cup {OCPPError}

\* One loop task runs from the await it is suspended in to its next await.
LoopFrame == UNCHANGED <<bcVars, classification, consumed>>

StartConnector == \E task \in BagToSet(tasks) : startConnector(task) /\ LoopFrame
InitPollWake == \E task \in BagToSet(tasks) : initPollWake(task) /\ LoopFrame
DelayWake == \E task \in BagToSet(tasks), r \in Draws : delayWake(task, r) /\ LoopFrame
AuthorizeReturn ==
  \E task \in BagToSet(tasks), result \in Results : authorizeReturn(task, result) /\ LoopFrame
StartTransactionReturn ==
  \E task \in BagToSet(tasks), result \in Results :
    startTransactionReturn(task, result) /\ LoopFrame
RejectWake == \E task \in BagToSet(tasks) : rejectWake(task) /\ LoopFrame
DurationWake == \E task \in BagToSet(tasks) : durationWake(task) /\ LoopFrame
StopTransactionReturn ==
  \E task \in BagToSet(tasks), result \in Results :
    stopTransactionReturn(task, result) /\ LoopFrame
FinalStopTransactionReturn ==
  \E task \in BagToSet(tasks), result \in Results :
    finalStopTransactionReturn(task, result) /\ LoopFrame

\* The station's owner calls start() or stop() on the generator.
Start == start /\ UNCHANGED <<envVars, bcVars, classification>>
Stop == stop /\ UNCHANGED <<envVars, bcVars, classification>>

\* ------------------------------------------------------------ environment
Tick ==
  /\ now < MaxTime
  /\ now' = now + 1
  /\ op' = "other"
  /\ UNCHANGED <<atgVars, station, connectorVars, bcVars, classification, consumed>>

\* Nothing has yet made the station or a connector unfit for transactions.
Operational ==
  /\ station.registered
  /\ station.available
  /\ \A c \in PositiveConnectors : station.connectorAvailable[c]

\* The station loses its registration, becomes unavailable, or one connector
\* does (one such change in a run); the OCPP request service appears (WS
\* open and codec initialised) and stays.
StationChange ==
  /\ op' = "other"
  /\ \/ Operational /\ station' = [station EXCEPT !.registered = FALSE]
     \/ Operational /\ station' = [station EXCEPT !.available = FALSE]
     \/ \E c \in PositiveConnectors :
          /\ Operational
          /\ station' = [station EXCEPT !.connectorAvailable[c] = FALSE]
     \/ ~station.service /\ station' = [station EXCEPT !.service = TRUE]
  /\ UNCHANGED <<atgVars, now, connectorVars, bcVars, classification, consumed>>

\* closeWSConnection(): the OCPP request service of the station goes away.
ServiceLost ==
  /\ station.service
  /\ station' = [station EXCEPT !.service = FALSE]
  /\ op' = "other"
  /\ UNCHANGED <<atgVars, now, connectorVars, bcVars, classification, consumed>>

\* A registered and available station of the given template: its connector
\* table, whether its OCPP request service is there yet, and the ATG
\* parameters and id tags of the template.
Station(table, service, hours, hasAuthorizedTags, requireAuthorize, probabilityOfStart) ==
  [connectors |-> table, registered |-> TRUE, available |-> TRUE,
   connectorAvailable |-> [c \in table |-> TRUE], service |-> service,
   hashId |-> "A", stopAfterHours |-> hours,
   hasAuthorizedTags |-> hasAuthorizedTags, requireAuthorize |-> requireAuthorize,
   probabilityOfStart |-> probabilityOfStart]

\* Stations that run for one clock unit, whose id tags must be authorized and
\* that start a transaction after half of their delays: the loop of every
\* other ATG configuration takes a subset of this one's paths.
Stations ==
  {Station(table, service, 1, TRUE, TRUE, 1) :
     table \in ConnectorTables, service \in BOOLEAN}

\* ------------------------------------------------- worker broadcast channel
\* An optional property of a JavaScript object: Absent, or Some(value).
Absent == <<>>
Some(value) == <<value>>
includes(array, element) == \E i \in 1 .. Len(array) : array[i] = element

\* BroadcastChannelProcedureName, and the keys of this.commandHandlers.
SyncHandlers ==
  {"START_CHARGING_STATION", "OPEN_CONNECTION", "CLOSE_CONNECTION",
   "START_AUTOMATIC_TRANSACTION_GENERATOR", "STOP_AUTOMATIC_TRANSACTION_GENERATOR",
   "SET_SUPERVISION_URL"}
AsyncStationHandlers == {"STOP_CHARGING_STATION", "DELETE_CHARGING_STATIONS"}
RequestHandlers ==
  {"START_TRANSACTION", "STOP_TRANSACTION", "AUTHORIZE", "BOOT_NOTIFICATION",
   "STATUS_NOTIFICATION", "HEARTBEAT", "METER_VALUES", "DATA_TRANSFER",
   "DIAGNOSTICS_STATUS_NOTIFICATION", "FIRMWARE_STATUS_NOTIFICATION"}
commandHandlers == SyncHandlers \cup AsyncStationHandlers \cup RequestHandlers
\* A procedure name the table has no entry for.
UnknownCommand == "UNKNOWN_COMMAND"

\* ResponseStatus
SUCCESS == "success"
FAILURE == "failure"

\* A CommandResponse: idTagInfo is idTagInfo?.status.
CommandResponse(idTagInfo, status, currentTime) ==
  [idTagInfo |-> idTagInfo, status |-> status, currentTime |-> currentTime]
EmptyObject == CommandResponse(Absent, Absent, Absent)
\* rambda's isEmpty, on an object
isEmpty(object) == \A field \in DOMAIN object : object[field] = Absent

\* The classifier without its HEARTBEAT case.
commandResponseToResponseStatusNoHeartbeat(command, commandResponse) ==
  CASE command \in {"START_TRANSACTION", "STOP_TRANSACTION", "AUTHORIZE"} ->
         IF commandResponse.idTagInfo = Some(ACCEPTED) THEN SUCCESS ELSE FAILURE
    [] command \in {"BOOT_NOTIFICATION", "DATA_TRANSFER"} ->
         IF commandResponse.status = Some(ACCEPTED) THEN SUCCESS ELSE FAILURE
    [] command \in {"STATUS_NOTIFICATION", "METER_VALUES"} ->
         IF isEmpty(commandResponse) THEN SUCCESS ELSE FAILURE
    [] OTHER -> FAILURE

commandResponseToResponseStatus(command, commandResponse) ==
  CASE command \in {"START_TRANSACTION", "STOP_TRANSACTION", "AUTHORIZE"} ->
         IF commandResponse.idTagInfo = Some(ACCEPTED) THEN SUCCESS ELSE FAILURE
    [] command = "BOOT_NOTIFICATION" ->
         IF commandResponse.status = Some(ACCEPTED) THEN SUCCESS ELSE FAILURE
    [] command = "DATA_TRANSFER" ->
         IF commandResponse.status = Some(ACCEPTED) THEN SUCCESS ELSE FAILURE
    [] command \in {"STATUS_NOTIFICATION", "METER_VALUES"} ->
         IF isEmpty(commandResponse) THEN SUCCESS ELSE FAILURE
    [] command = "HEARTBEAT" ->
         IF commandResponse.currentTime # Absent THEN SUCCESS ELSE FAILURE
    [] OTHER -> FAILURE

\* A BroadcastChannelResponsePayload.
ResponsePayload(status, command, requestPayload, commandResponse, error) ==
  [hashId |-> station.hashId, status |-> status, command |-> command,
   requestPayload |-> requestPayload, commandResponse |-> commandResponse,
   errorMessage |-> IF error = Absent THEN Absent ELSE Some(error[1].message),
   errorStack |-> IF error = Absent THEN Absent ELSE Some(error[1].stack),
   errorDetails |-> IF error = Absent THEN Absent ELSE Some(error[1].details)]

\* The failure payload without the commandResponse it reports.
commandResponseToResponsePayloadBare(command, requestPayload, commandResponse) ==
  ResponsePayload(commandResponseToResponseStatus(command, commandResponse),
                  Some(command), Some(requestPayload), Absent, Absent)

commandResponseToResponsePayload(command, requestPayload, commandResponse) ==
  LET responseStatus == commandResponseToResponseStatus(command, commandResponse)
  IN IF responseStatus = SUCCESS
       THEN ResponsePayload(responseStatus, Absent, Absent, Absent, Absent)
       ELSE ResponsePayload(responseStatus, Some(command), Some(requestPayload),
                            Some(commandResponse), Absent)

\* The .then() callback: commandResponse is Absent for undefined.
thenResponsePayload(command, requestPayload, commandResponse) ==
  IF commandResponse = Absent \/ isEmpty(commandResponse[1])
    THEN ResponsePayload(SUCCESS, Absent, Absent, Absent, Absent)
    ELSE commandResponseToResponsePayload(command, requestPayload, commandResponse[1])

\* The .catch() callback reporting the error's message only.
catchResponsePayloadMessageOnly(command, requestPayload, error) ==
  [ResponsePayload(FAILURE, Some(command), Some(requestPayload), Absent, Some(error))
     EXCEPT !.errorStack = Absent, !.errorDetails = Absent]

\* The .catch() callback.
catchResponsePayload(command, requestPayload, error) ==
  ResponsePayload(FAILURE, Some(command), Some(requestPayload), Absent, Some(error))

\* Errors: details is "undefined" where the error has none.
OCPPErrors == {[message |-> "timeout", stack |-> "OCPPError: timeout", details |-> "NetworkError"]}
BaseError ==
  [message |-> "Unknown worker broadcast channel command",
   stack |-> "BaseError", details |-> "undefined"]

\* A BroadcastChannelRequestPayload.
RequestPayload(hashIds, hashId, connectorIds, idTag) ==
  [hashIds |-> hashIds, hashId |-> hashId, connectorIds |-> connectorIds, idTag |-> idTag]

\* cleanRequestPayload deleting connectorIds for every command.
cleanRequestPayloadOfConnectorIds(command, requestPayload) ==
  [requestPayload EXCEPT !.hashId = Absent, !.hashIds = Absent, !.connectorIds = Absent]

cleanRequestPayload(command, requestPayload) ==
  [requestPayload EXCEPT
     !.hashId = Absent,
     !.hashIds = Absent,
     !.connectorIds =
        IF command \notin {"START_AUTOMATIC_TRANSACTION_GENERATOR",
                           "STOP_AUTOMATIC_TRANSACTION_GENERATOR"}
          THEN Absent ELSE @]

\* A MessageEvent: shape is what validateMessageEvent and isResponse see.
MessageEvent(shape, uuid, command, payload) ==
  [shape |-> shape, uuid |-> uuid, command |-> command, payload |-> payload]
validateMessageEvent(messageEvent) == messageEvent.shape # "malformed"
isResponse(messageEvent) == messageEvent.shape = "response"

\* The early returns without the hashIds one, and without the hashId one.
droppedIgnoringHashIds(messageEvent) ==
  \/ ~validateMessageEvent(messageEvent)
  \/ isResponse(messageEvent)
  \/ messageEvent.payload.hashId # Absent
droppedIgnoringHashId(messageEvent) ==
  \/ ~validateMessageEvent(messageEvent)
  \/ isResponse(messageEvent)
  \/ /\ messageEvent.payload.hashIds # Absent
     /\ ~includes(messageEvent.payload.hashIds[1], station.hashId)

\* The early returns of requestHandler.
dropped(messageEvent) ==
  \/ ~validateMessageEvent(messageEvent)
  \/ isResponse(messageEvent)
  \/ /\ messageEvent.payload.hashIds # Absent
     /\ ~includes(messageEvent.payload.hashIds[1], station.hashId)
  \/ messageEvent.payload.hashId # Absent

\* sendResponse([uuid, responsePayload])
sendResponse(uuid, responsePayload) ==
  Append(published, [uuid |-> uuid, payload |-> responsePayload])

\* What a handler returned (commandResponse, Absent for undefined) or threw.
Returned(commandResponse) == [error |-> Absent, commandResponse |-> commandResponse]
Threw(error) == [error |-> Some(error), commandResponse |-> Absent]
\* A call of a handler of the table: outcome is Absent while it is awaited.
HandlerCall(command, requestPayload, outcome) ==
  [command |-> command, requestPayload |-> requestPayload, outcome |-> outcome]

\* What the station does for a handler that calls it and returns undefined:
\* the ATG handlers reach start() and stop(), opening the connection makes
\* the OCPP request service appear.
stationCall(command) ==
  CASE command = "START_AUTOMATIC_TRANSACTION_GENERATOR" -> start /\ UNCHANGED envVars
    [] command = "STOP_AUTOMATIC_TRANSACTION_GENERATOR" -> stop /\ UNCHANGED envVars
    [] command = "OPEN_CONNECTION" ->
         /\ station' = [station EXCEPT !.service = TRUE]
         /\ op' = "other"
         /\ UNCHANGED <<atgVars, now, connectorVars, consumed>>
    [] OTHER -> op' = "other" /\ UNCHANGED <<atgVars, envVars, consumed>>

\* commandHandler(command, requestPayload) to its first await, and what the
\* promise chain of requestHandler does when it settles at once.
commandHandler(uuid, command, requestPayload) ==
  IF command \in commandHandlers
    THEN LET cleaned == cleanRequestPayload(command, requestPayload)
         IN IF command \in SyncHandlers
              THEN /\ stationCall(command)
                   /\ handlers' = [handlers EXCEPT ![uuid] =
                        Some(HandlerCall(command, cleaned, Some(Returned(Absent))))]
                   /\ published' =
                        sendResponse(uuid, thenResponsePayload(command, cleaned, Absent))
              ELSE /\ handlers' = [handlers EXCEPT ![uuid] =
                        Some(HandlerCall(command, cleaned, Absent))]
                   /\ op' = "other"
                   /\ UNCHANGED <<atgVars, envVars, published, consumed>>
    ELSE /\ published' =
              sendResponse(uuid, catchResponsePayload(command, requestPayload, BaseError))
         /\ op' = "other"
         /\ UNCHANGED <<atgVars, envVars, handlers, consumed>>

\* onmessage: requestHandler(messageEvent).
requestHandler(messageEvent) ==
  /\ requests[messageEvent.uuid] = Absent
  /\ requests' = [requests EXCEPT ![messageEvent.uuid] = Some(messageEvent)]
  /\ UNCHANGED classification
  /\ IF dropped(messageEvent)
       THEN op' = "other" /\ UNCHANGED <<atgVars, envVars, handlers, published, consumed>>
       ELSE commandHandler(messageEvent.uuid, messageEvent.command, messageEvent.payload)

\* The responsePayload the .then() or the .catch() callback builds.
settledResponsePayload(call, outcome) ==
  IF outcome.error = Absent
    THEN thenResponsePayload(call.command, call.requestPayload, outcome.commandResponse)
    ELSE catchResponsePayload(call.command, call.requestPayload, outcome.error[1])

\* What an awaited handler can return or throw.
Responses ==
  {EmptyObject,
   CommandResponse(Some(ACCEPTED), Absent, Absent),
   CommandResponse(Some(BLOCKED), Absent, Absent),
   CommandResponse(Absent, Some(ACCEPTED), Absent),
   CommandResponse(Absent, Some("Rejected"), Absent),
   CommandResponse(Absent, Absent, Some("2024-06-01T00:00:00Z"))}
Outcomes(command) ==
  IF command \in AsyncStationHandlers
    THEN {Returned(Absent)} \cup {Threw(error) : error \in OCPPErrors}
    ELSE {Returned(Some(response)) : response \in Responses}
           \cup {Threw(error) : error \in OCPPErrors}

\* sendResponse called at the end of .then() instead of in .finally().
sendResponseFromThen(uuid, call, outcome) ==
  IF outcome.error = Absent
    THEN sendResponse(uuid, settledResponsePayload(call, outcome))
    ELSE published

\* The .finally() callback.
finallySendResponse(uuid, call, outcome) ==
  sendResponse(uuid, settledResponsePayload(call, outcome))

\* The awaited handler of request uuid settles: .then() or .catch(), then
\* .finally() posts the response.
handlerSettles(uuid, outcome) ==
  /\ handlers[uuid] # Absent
  /\ handlers[uuid][1].outcome = Absent
  /\ outcome \in Outcomes(handlers[uuid][1].command)
  /\ handlers' = [handlers EXCEPT ![uuid] = Some([@[1] EXCEPT !.outcome = Some(outcome)])]
  /\ published' = finallySendResponse(uuid, handlers[uuid][1], outcome)
  /\ op' = "other"
  /\ UNCHANGED <<atgVars, envVars, requests, classification, consumed>>

\* ------------------------------------------------------ messages delivered
MaxUuid == 2
Uuids == 1 .. MaxUuid
\* The next uuid of the sender.
FreshUuid == CHOOSE uuid \in Uuids \cup {MaxUuid + 1} :
               /\ uuid \in Uuids => requests[uuid] = Absent
               /\ \A other \in Uuids : other < uuid => requests[other] # Absent

NoPayload == RequestPayload(Absent, Absent, Absent, Absent)

\* Requests for every procedure and an unknown one, addressed to every
\* station or to this one, a response, a malformed and a misaddressed one,
\* and AUTHORIZE requests for two tags.
DispatchMessages(uuid) ==
  {MessageEvent("request", uuid, command, RequestPayload(hashIds, Absent, Absent, Absent)) :
     command \in commandHandlers \cup {UnknownCommand},
     hashIds \in {Absent, Some(<<"A">>)}}
  \cup {MessageEvent(shape, uuid, "HEARTBEAT", NoPayload) : shape \in {"response", "malformed"}}
  \cup {MessageEvent("request", uuid, "HEARTBEAT",
                     RequestPayload(Some(<<"B">>), Absent, Absent, Absent))}
  \cup {MessageEvent("request", uuid, "AUTHORIZE", RequestPayload(Absent, Absent, Absent, Some(idTag))) :
          idTag \in {"TAG1", "TAG2"}}

\* Requests with every targeting: hashIds absent, empty, with and without
\* this station; hashId absent, this station's, another's.
TargetingMessages(uuid) ==
  {MessageEvent("request", uuid, command, RequestPayload(hashIds, hashId, Absent, Absent)) :
     command \in {"START_AUTOMATIC_TRANSACTION_GENERATOR", "CLOSE_CONNECTION",
                  "HEARTBEAT", UnknownCommand},
     hashIds \in {Absent, Some(<<>>), Some(<<"A">>), Some(<<"B">>),
                  Some(<<"B", "C">>), Some(<<"B", "A">>)},
     hashId \in {Absent, Some("A"), Some("B")}}

\* Requests with every combination of payload fields: hashIds and hashId,
\* connectorIds, and idTag for the fields cleanRequestPayload does not name.
PayloadMessages(uuid) ==
  {MessageEvent("request", uuid, command, RequestPayload(hashIds, hashId, connectorIds, idTag)) :
     command \in {"START_AUTOMATIC_TRANSACTION_GENERATOR",
                  "STOP_AUTOMATIC_TRANSACTION_GENERATOR", "CLOSE_CONNECTION",
                  "STOP_CHARGING_STATION", "AUTHORIZE", UnknownCommand},
     hashIds \in {Absent, Some(<<"A">>), Some(<<"B">>)},
     hashId \in {Absent, Some("A")},
     connectorIds \in {Absent, Some(<<1>>)},
     idTag \in {Absent, Some("TAG1")}}
ReceivePayload ==
  /\ FreshUuid \in Uuids
  /\ \E messageEvent \in PayloadMessages(FreshUuid) : requestHandler(messageEvent)

Receive ==
  /\ FreshUuid \in Uuids
  /\ \E messageEvent \in DispatchMessages(FreshUuid) : requestHandler(messageEvent)
ReceiveTargeted ==
  /\ FreshUuid \in Uuids
  /\ \E messageEvent \in TargetingMessages(FreshUuid) : requestHandler(messageEvent)
HandlerSettles ==
  \E uuid \in Uuids :
    \E outcome \in Outcomes(IF handlers[uuid] = Absent THEN "HEARTBEAT"
                            ELSE handlers[uuid][1].command) :
      handlerSettles(uuid, outcome)

\* --------------------------------------------------------- specifications
\* commandResponseToResponseStatus is called on the arguments drawn.
Classify ==
  /\ classification.status = Absent
  /\ classification' = [classification EXCEPT !.status =
       Some(commandResponseToResponseStatus(classification.command,
                                            classification.commandResponse))]
  /\ UNCHANGED <<atgVars, envVars, op, bcVars, consumed>>

\* Every response over the three properties the classifier reads.
AllResponses ==
  {CommandResponse(idTagInfo, status, currentTime) :
     idTagInfo \in {Absent, Some(ACCEPTED), Some(BLOCKED)},
     status \in {Absent, Some(ACCEPTED), Some("Rejected")},
     currentTime \in {Absent, Some("2024-06-01T00:00:00Z")}}
Classifications ==
  {[command |-> command, commandResponse |-> commandResponse, status |-> Absent] :
     command \in commandHandlers \cup {UnknownCommand}, commandResponse \in AllResponses}
NoClassification == [command |-> "HEARTBEAT", commandResponse |-> EmptyObject, status |-> Absent]

\* The state after construction of the generator and the dispatcher of a
\* station of stations, but for classification.
ConstructedFor(stations) ==
  /\ station \in stations
  /\ started = FALSE
  /\ connectorsStartStatus = stopConnectors([c \in PositiveConnectors |-> TRUE])
  /\ startDate = NoDate
  /\ lastRunDate = NoDate
  /\ stopDate = NoDate
  /\ tasks = EmptyBag
  /\ now = 0
  /\ transactionStarted = [c \in Connectors |-> FALSE]
  /\ transactionId = [c \in Connectors |-> 0]
  /\ lastTransactionId = 0
  /\ op = "other"
  /\ requests = [uuid \in Uuids |-> Absent]
  /\ handlers = [uuid \in Uuids |-> Absent]
  /\ published = <<>>
  /\ consumed = 0

Constructed == ConstructedFor(Stations)

Init == Constructed /\ classification = NoClassification

\* The generator, its loops, the clock and the station.
Next ==
  \/ Start \/ Stop
  \/ StartConnector \/ InitPollWake \/ DelayWake \/ AuthorizeReturn
  \/ StartTransactionReturn \/ RejectWake \/ DurationWake
  \/ StopTransactionReturn \/ FinalStopTransactionReturn
  \/ Tick \/ StationChange

Spec == Init /\ [][Next]_vars

\* The dispatcher of the worker broadcast channel.
NextChannel == Receive \/ HandlerSettles
SpecChannel == Init /\ [][NextChannel]_vars

\* Every awaited handler settles: the OCPP request service answers a request
\* or raises its timeout.
SpecChannelFair ==
  SpecChannel /\ \A uuid \in Uuids :
                   WF_vars(\E outcome \in Outcomes("HEARTBEAT") \cup Outcomes("STOP_CHARGING_STATION") :
                             handlerSettles(uuid, outcome))

NextTargeting == ReceiveTargeted \/ HandlerSettles
SpecTargeting == Init /\ [][NextTargeting]_vars

\* The dispatcher on requests of every payload.
NextPayload == ReceivePayload \/ HandlerSettles
SpecPayload == Init /\ [][NextPayload]_vars

\* The response classifier on every command and response.
InitClassifier == Constructed /\ classification \in Classifications
SpecClassifier == InitClassifier /\ [][Classify]_vars

\* The generator of a station whose template gives it no running time.
ZeroBudgetStations ==
  {Station(table, service, 0, TRUE, TRUE, 1) :
     table \in ConnectorTables, service \in BOOLEAN}
InitZeroBudget == ConstructedFor(ZeroBudgetStations) /\ classification = NoClassification
SpecZeroBudget == InitZeroBudget /\ [][Next]_vars

\* One-connector stations of every ATG start configuration: id tags or none,
\* requireAuthorize or not, and each probabilityOfStart.
StartDecisionStations ==
  {Station(0 .. 1, service, 1, hasAuthorizedTags, requireAuthorize, probabilityOfStart) :
     service \in BOOLEAN, hasAuthorizedTags \in BOOLEAN, requireAuthorize \in BOOLEAN,
     probabilityOfStart \in Probabilities}
InitStartDecision ==
  ConstructedFor(StartDecisionStations) /\ classification = NoClassification
SpecStartDecision == InitStartDecision /\ [][Next]_vars

\* One run of the generator: start() is called once, early enough for the
\* clock to pass stopDate.
FirstStart == startDate = NoDate /\ now + stopAfterHours < MaxTime /\ Start
NextOneRun ==
  \/ FirstStart \/ Stop
  \/ StartConnector \/ InitPollWake \/ DelayWake \/ AuthorizeReturn
  \/ StartTransactionReturn \/ RejectWake \/ DurationWake
  \/ StopTransactionReturn \/ FinalStopTransactionReturn
  \/ Tick \/ StationChange
\* The loop of connector c runs from the await it is suspended in to its next.
LoopStep(c) ==
  \E task \in BagToSet(tasks) :
    /\ task.connectorId = c
    /\ LoopFrame
    /\ \/ startConnector(task) \/ initPollWake(task) \/ rejectWake(task)
       \/ durationWake(task)
       \/ \E r \in Draws : delayWake(task, r)
       \/ \E result \in Results :
            \/ authorizeReturn(task, result)
            \/ startTransactionReturn(task, result)
            \/ stopTransactionReturn(task, result)
            \/ finalStopTransactionReturn(task, result)
\* Every setImmediate callback runs, every sleep and every awaited OCPP
\* request completes, and the clock advances.
SpecOneRunFair ==
  /\ Init
  /\ [][NextOneRun]_vars
  /\ WF_vars(Tick)
  /\ \A c \in 1 .. MaxConnectorId : WF_vars(LoopStep(c))

\* The generator of a one-connector station whose connection can be closed
\* again.
ServiceLossStations == {Station(0 .. 1, service, 1, TRUE, TRUE, 1) : service \in BOOLEAN}
InitServiceLoss == ConstructedFor(ServiceLossStations) /\ classification = NoClassification
NextServiceLoss == Next \/ ServiceLost
SpecServiceLoss == InitServiceLoss /\ [][NextServiceLoss]_vars

\* -------------------------------------------- properties of the generator
\* The loop tasks of connector c suspended in one of the awaits pcs.
TasksAt(c, pcs) == {task \in BagToSet(tasks) : task.connectorId = c /\ task.pc \in pcs}
CountAt(bag, c, pcs) ==
  LET at == {task \in BagToSet(bag) : task.connectorId = c /\ task.pc \in pcs}
      RECURSIVE Sum(_)
      Sum(set) == IF set = {} THEN 0
                  ELSE LET task == CHOOSE t \in set : TRUE
                       IN CopiesIn(task, bag) + Sum(set \ {task})
  IN Sum(at)

\* C2: whenever started is false, connectorsStartStatus[c] is false for every
\* positive connector id c, under any interleaving of start(), stop() and the
\* scheduled loop tasks.
C2_NotStartedImpliesFlagsCleared ==
  ~started => \A c \in PositiveConnectors : ~connectorsStartStatus[c]

\* C3: no step sends an Authorize or a StartTransaction for connector c while
\* a loop of c holds a transaction it started and has not yet had its
\* StopTransaction answered (it sleeps the duration or awaits the stop).
C3_NoStartWhileTransactionOpen ==
  [][\A c \in PositiveConnectors :
       (\/ CountAt(tasks', c, {"sendAuthorize"}) > CountAt(tasks, c, {"sendAuthorize"})
        \/ CountAt(tasks', c, {"sendStartTransaction"})
             > CountAt(tasks, c, {"sendStartTransaction"}))
       => TasksAt(c, {"durationSleep", "sendStopTransaction"}) = {}]_vars

\* C10: a start() while started and a stop() while not started change none of
\* started, startDate, lastRunDate, stopDate, connectorsStartStatus, and
\* schedule or end no loop task.
C10_GuardedStartStopAreNoOps ==
  [][((op' = "start" /\ started) \/ (op' = "stop" /\ ~started))
       => UNCHANGED atgVars]_vars

\* start() was called on a generator started at an earlier instant: a start()
\* that took effect would have set startDate to now.
C10_Witness == op = "start" /\ started /\ startDate < now /\ tasks # EmptyBag


\* ------------------------------------------- properties of the dispatcher
\* The positions in published of the responses bearing uuid.
ResponsesTo(uuid) == {i \in 1 .. Len(published) : published[i].uuid = uuid}
Delivered(uuid) == requests[uuid] # Absent
\* A delivered request the dispatcher accepts: well-formed, not a response,
\* addressed to this station and without the legacy hashId.
Accepted(uuid) ==
  /\ Delivered(uuid)
  /\ requests[uuid][1].shape = "request"
  /\ requests[uuid][1].payload.hashId = Absent
  /\ \/ requests[uuid][1].payload.hashIds = Absent
     \/ \E i \in 1 .. Len(requests[uuid][1].payload.hashIds[1]) :
          requests[uuid][1].payload.hashIds[1][i] = station.hashId
\* The handler of request uuid has returned or thrown.
Settled(uuid) == handlers[uuid] # Absent /\ handlers[uuid][1].outcome # Absent

\* C1: every accepted request gets exactly one response; the response bears
\* the request's uuid and, where it echoes them, the request's command and
\* idTag; no uuid has two responses and no request that was not accepted has
\* one. Every accepted request is eventually answered.
C1_AtMostOneResponseOfItsRequest ==
  \A uuid \in Uuids \cup {published[i].uuid : i \in 1 .. Len(published)} :
    /\ uuid \in Uuids
    /\ Cardinality(ResponsesTo(uuid)) <= 1
    /\ \A i \in ResponsesTo(uuid) :
         /\ Accepted(uuid)
         /\ published[i].payload.command \in {Absent, Some(requests[uuid][1].command)}
         /\ published[i].payload.requestPayload # Absent =>
              /\ published[i].payload.requestPayload[1].idTag = requests[uuid][1].payload.idTag
              /\ published[i].payload.requestPayload[1].hashIds \in
                   {Absent, requests[uuid][1].payload.hashIds}
    /\ (Accepted(uuid) /\ (handlers[uuid] = Absent \/ Settled(uuid))) =>
         Cardinality(ResponsesTo(uuid)) = 1
C1_ExactlyOneResponse ==
  /\ []C1_AtMostOneResponseOfItsRequest
  /\ \A uuid \in Uuids : Accepted(uuid) ~> (Cardinality(ResponsesTo(uuid)) = 1)
\* Two requests in flight at once, answered in the reverse order, one on the
\* thrown-failure path and one on the semantic-failure path.
C1_Witness ==
  /\ Len(published) = 2
  /\ requests[1][1].payload.idTag = Some("TAG1")
  /\ requests[2][1].payload.idTag = Some("TAG2")
  /\ published[1].uuid = 2 /\ published[2].uuid = 1
  /\ published[1].payload.commandResponse # Absent
  /\ published[2].payload.errorMessage # Absent

\* hashIds is a non-empty list without this station's hashId.
NotAddressed(messageEvent) ==
  /\ messageEvent.payload.hashIds # Absent
  /\ messageEvent.payload.hashIds[1] # <<>>
  /\ \A i \in 1 .. Len(messageEvent.payload.hashIds[1]) :
       messageEvent.payload.hashIds[1][i] # station.hashId

\* C4: a request whose hashIds is a non-empty list without this station's
\* hashId never has a handler call or a response, and the step that delivers
\* it changes nothing of the ATG, the station, the handler calls and the
\* responses published.
C4_NotAddressedIsIgnored ==
  /\ [](\A uuid \in Uuids :
          (Delivered(uuid) /\ NotAddressed(requests[uuid][1])) =>
            handlers[uuid] = Absent /\ ResponsesTo(uuid) = {})
  /\ [][\A uuid \in Uuids :
          (~Delivered(uuid) /\ requests'[uuid] # Absent /\ NotAddressed(requests'[uuid][1])) =>
            UNCHANGED <<atgVars, envVars, handlers, published>>]_vars
\* A START_AUTOMATIC_TRANSACTION_GENERATOR for stations B and C was delivered
\* and the ATG is not started; a later request was answered.
C4_Witness ==
  /\ Delivered(1)
  /\ requests[1][1].command = "START_AUTOMATIC_TRANSACTION_GENERATOR"
  /\ requests[1][1].payload.hashIds = Some(<<"B", "C">>)
  /\ requests[1][1].payload.hashId = Absent
  /\ ~started
  /\ ResponsesTo(2) # {}

\* C5: a request that carries the legacy hashId never has a handler call or a
\* response, whatever its hashIds is.
C5_LegacyHashIdIsDropped ==
  \A uuid \in Uuids :
    (Delivered(uuid) /\ requests[uuid][1].payload.hashId # Absent) =>
      handlers[uuid] = Absent /\ ResponsesTo(uuid) = {}
\* A request with this station's hashId in both fields was delivered, and so
\* were one with an empty hashIds and the legacy field.
C5_Witness ==
  /\ Delivered(1) /\ Delivered(2)
  /\ requests[1][1].payload.hashId = Some("A")
  /\ requests[1][1].payload.hashIds = Some(<<"A">>)
  /\ requests[2][1].payload.hashId = Some("A")
  /\ requests[2][1].payload.hashIds = Some(<<>>)

\* C6: a well-formed request without the legacy hashId whose hashIds is absent
\* or the empty list, for a procedure of the table, has its handler called,
\* and has a response once the handler has settled.
C6_AbsentOrEmptyHashIdsIsHandled ==
  \A uuid \in Uuids :
    (/\ Delivered(uuid)
     /\ requests[uuid][1].shape = "request"
     /\ requests[uuid][1].payload.hashId = Absent
     /\ requests[uuid][1].payload.hashIds \in {Absent, Some(<<>>)}
     /\ requests[uuid][1].command \in commandHandlers) =>
      /\ handlers[uuid] # Absent
      /\ Settled(uuid) => ResponsesTo(uuid) # {}

\* The response says accepted, for the five procedures with a status.
IndicatesAccepted(command, commandResponse) ==
  IF command \in {"START_TRANSACTION", "STOP_TRANSACTION", "AUTHORIZE"}
    THEN commandResponse.idTagInfo = Some(ACCEPTED)
    ELSE commandResponse.status = Some(ACCEPTED)
\* The handler of uuid returned a response that does not say accepted, for
\* one of the five procedures.
ReturnedNotAccepted(uuid) ==
  /\ Settled(uuid)
  /\ handlers[uuid][1].command \in
       {"START_TRANSACTION", "STOP_TRANSACTION", "AUTHORIZE", "BOOT_NOTIFICATION",
        "DATA_TRANSFER"}
  /\ handlers[uuid][1].outcome[1].error = Absent
  /\ handlers[uuid][1].outcome[1].commandResponse # Absent
  /\ ~IndicatesAccepted(handlers[uuid][1].command,
                        handlers[uuid][1].outcome[1].commandResponse[1])
\* The response to uuid is a FAILURE with the command, the requestPayload and
\* the response the handler returned.
SemanticFailurePublished(uuid) ==
  \E i \in ResponsesTo(uuid) :
    /\ published[i].payload.status = FAILURE
    /\ published[i].payload.command = Some(requests[uuid][1].command)
    /\ published[i].payload.requestPayload = Some(handlers[uuid][1].requestPayload)
    /\ published[i].payload.commandResponse = handlers[uuid][1].outcome[1].commandResponse
    /\ published[i].payload.errorMessage = Absent

\* C7 as stated: for the five procedures every returned response that does
\* not say accepted, the empty object included, is published as a FAILURE
\* with command, requestPayload and commandResponse.
C7_EveryNotAcceptedResponseFails ==
  \A uuid \in Uuids : ReturnedNotAccepted(uuid) => SemanticFailurePublished(uuid)
\* C7: for the five procedures every returned response other than the empty
\* object that does not say accepted is published as a FAILURE with command,
\* requestPayload and commandResponse.
C7_NonEmptyNotAcceptedResponseFails ==
  \A uuid \in Uuids :
    (/\ ReturnedNotAccepted(uuid)
     /\ handlers[uuid][1].outcome[1].commandResponse[1] # EmptyObject) =>
      SemanticFailurePublished(uuid)
\* A rejected BOOT_NOTIFICATION and a blocked START_TRANSACTION were answered.
C7_Witness ==
  /\ ReturnedNotAccepted(1) /\ ReturnedNotAccepted(2)
  /\ handlers[1][1].command = "BOOT_NOTIFICATION"
  /\ handlers[1][1].outcome[1].commandResponse[1].status = Some("Rejected")
  /\ handlers[2][1].command = "START_TRANSACTION"
  /\ handlers[2][1].outcome[1].commandResponse[1].idTagInfo = Some(BLOCKED)
  /\ SemanticFailurePublished(1) /\ SemanticFailurePublished(2)

\* The response to uuid is a FAILURE with command, requestPayload and the
\* three properties of the error, and without a commandResponse.
ThrownFailurePublished(uuid, requestPayload, message, stack, details) ==
  \E i \in ResponsesTo(uuid) :
    /\ published[i].payload.status = FAILURE
    /\ published[i].payload.command = Some(requests[uuid][1].command)
    /\ published[i].payload.requestPayload = Some(requestPayload)
    /\ published[i].payload.errorMessage = Some(message)
    /\ published[i].payload.errorStack = Some(stack)
    /\ published[i].payload.errorDetails = Some(details)
    /\ published[i].payload.commandResponse = Absent
\* The handler of uuid threw.
HandlerThrew(uuid) == Settled(uuid) /\ handlers[uuid][1].outcome[1].error # Absent

\* C8: an error thrown by a handler, and the error for a command without a
\* handler, is published as a FAILURE with command, requestPayload,
\* errorMessage, errorStack and errorDetails and without a commandResponse;
\* no handler is called for a command without one.
C8_ThrownFailureIsPublished ==
  \A uuid \in Uuids :
    /\ HandlerThrew(uuid) =>
         ThrownFailurePublished(uuid, handlers[uuid][1].requestPayload,
                                handlers[uuid][1].outcome[1].error[1].message,
                                handlers[uuid][1].outcome[1].error[1].stack,
                                handlers[uuid][1].outcome[1].error[1].details)
    /\ (Accepted(uuid) /\ requests[uuid][1].command \notin commandHandlers) =>
         /\ handlers[uuid] = Absent
         /\ ThrownFailurePublished(uuid, requests[uuid][1].payload,
                                   "Unknown worker broadcast channel command",
                                   "BaseError", "undefined")
\* A handler threw an OCPPError and a command without a handler was received.
C8_Witness ==
  /\ HandlerThrew(1)
  /\ handlers[1][1].outcome[1].error[1].details = "NetworkError"
  /\ Accepted(2) /\ requests[2][1].command = UnknownCommand
  /\ Len(published) = 2

\* The reference table of the response classifier.
ReferenceSuccess(command, commandResponse) ==
  \/ /\ command \in {"START_TRANSACTION", "STOP_TRANSACTION", "AUTHORIZE"}
     /\ commandResponse.idTagInfo = Some(ACCEPTED)
  \/ /\ command \in {"BOOT_NOTIFICATION", "DATA_TRANSFER"}
     /\ commandResponse.status = Some(ACCEPTED)
  \/ /\ command \in {"STATUS_NOTIFICATION", "METER_VALUES"}
     /\ commandResponse = EmptyObject
  \/ /\ command = "HEARTBEAT"
     /\ commandResponse.currentTime # Absent

\* C9: for every command and every response the classifier gives SUCCESS
\* where the reference table does and FAILURE everywhere else.
C9_ClassifierEqualsReferenceTable ==
  classification.status # Absent =>
    classification.status[1] =
      IF ReferenceSuccess(classification.command, classification.commandResponse)
        THEN SUCCESS ELSE FAILURE
\* An empty HEARTBEAT response was classified as FAILURE.
C9_Witness ==
  /\ classification.command = "HEARTBEAT"
  /\ classification.commandResponse = EmptyObject
  /\ classification.status = Some(FAILURE)


\* ---------------------------------- properties of the generator's loops
\* C11: over any number of start, stop, start cycles the running time the
\* earlier runs consumed plus the budget granted to the current run
\* (stopDate - startDate) is stopAfterHours.
C11_RestartPreservesBudget ==
  startDate # NoDate => consumed + (stopDate - startDate) = stopAfterHours

\* The awaits of the loop body, and those that are sleeps.
BodyPcs ==
  {"scheduled", "initPoll", "delay", "sendAuthorize", "sendStartTransaction",
   "rejectSleep", "durationSleep", "sendStopTransaction"}
StartRequestPcs == {"sendAuthorize", "sendStartTransaction"}
\* The loop suspended as task resumes in this step.
Resumes(task) == CopiesIn(task, tasks') < CopiesIn(task, tasks)

\* C12: a loop that wakes from its delay, its post-reject wait or its init
\* poll while the flag of its connector is cleared leaves the loop body in
\* that step and sends no Authorize and no StartTransaction.
C12_ClearedFlagEndsLoopAfterSleep ==
  [][\A task \in BagToSet(tasks) :
       (/\ task.pc \in {"delay", "rejectSleep", "initPoll"}
        /\ ~connectorsStartStatus[task.connectorId]
        /\ Resumes(task)) =>
         /\ CountAt(tasks', task.connectorId, StartRequestPcs)
              <= CountAt(tasks, task.connectorId, StartRequestPcs)
         /\ CountAt(tasks', task.connectorId, BodyPcs)
              < CountAt(tasks, task.connectorId, BodyPcs)]_vars

\* The loop suspended as task leaves the loop body in this step.
LeavesBody(task) ==
  /\ task.pc \in BodyPcs
  /\ Resumes(task)
  /\ CountAt(tasks', task.connectorId, BodyPcs) < CountAt(tasks, task.connectorId, BodyPcs)
\* The StopTransaction the trailing stopTransaction of loop sends.
FinalStop(loop) == Suspend(loop, "finalStopTransaction", transactionId'[loop.connectorId])

C14_RaisedRequestStillStopsTransaction ==
  [][\A task \in BagToSet(tasks) :
       (/\ task.pc \in {"sendAuthorize", "sendStartTransaction", "sendStopTransaction"}
        /\ Resumes(task)
        /\ op' = "raised"
        /\ transactionStarted'[task.connectorId]) =>
         \E loop \in BagToSet(tasks') :
           /\ loop.pc = "finalStopTransaction"
           /\ loop.connectorId = task.connectorId
           /\ CopiesIn(loop, tasks') > CopiesIn(loop, tasks)]_vars

\* How many more loops of connector c are suspended in pc after this step.
Gain(c, pc) == CountAt(tasks', c, {pc}) - CountAt(tasks, c, {pc})
\* A loop of connector c suspended in pc resumes in this step.
ResumesAt(c, pc) == \E task \in TasksAt(c, {pc}) : Resumes(task)

\* C15: a loop sleeps the duration exactly when its StartTransaction was
\* accepted; when that sleep returns, whether or not stop() was called
\* meanwhile, the loop sends one StopTransaction for the transaction open on
\* its connector; no other step of an iteration sends one.
C15_AcceptedStartThenOneStop ==
  [][\A c \in PositiveConnectors :
       /\ Gain(c, "durationSleep") > 0 =>
            /\ ResumesAt(c, "sendStartTransaction")
            /\ transactionStarted'[c] /\ transactionId'[c] = lastTransactionId'
            /\ lastTransactionId' = lastTransactionId + 1
       /\ (ResumesAt(c, "durationSleep") /\ transactionStarted[c]) =>
            /\ Gain(c, "sendStopTransaction") = 1
            /\ \A task \in TasksAt(c, {"sendStopTransaction"})' :
                 CopiesIn(task, tasks') > CopiesIn(task, tasks) =>
                   task.transactionId = transactionId[c]
       /\ Gain(c, "sendStopTransaction") > 0 =>
            ResumesAt(c, "durationSleep") /\ Gain(c, "sendStopTransaction") = 1]_vars
\* stop() was called and the loop then woke from its duration sleep and sent
\* StopTransaction.
C15_Witness ==
  /\ ~started
  /\ op = "other"
  /\ now = 0
  /\ \E task \in BagToSet(tasks) :
       /\ task.pc = "sendStopTransaction"
       /\ ~connectorsStartStatus[task.connectorId]
       /\ task.transactionId = transactionId[task.connectorId]
       /\ BagCardinality(tasks) = 1

\* C16: with stopAfterHours = 0 and nothing subtracted for a previous run, a
\* scheduled loop that runs its first iteration, at whatever instant, calls
\* stop() and leaves without suspending in the init poll or the delay sleep
\* and without a start request.
C16_ZeroBudgetSelfStops ==
  [][\A task \in BagToSet(tasks) :
       (/\ task.pc = "scheduled"
        /\ Resumes(task)
        /\ stopAfterHours = 0
        /\ stopDate = startDate) =>
         /\ ~started'
         /\ CountAt(tasks', task.connectorId, BodyPcs \ {"scheduled"})
              <= CountAt(tasks, task.connectorId, BodyPcs \ {"scheduled"})]_vars

\* The loop tasks there are more of after this step than before it.
Gained == {loop \in BagToSet(tasks') : CopiesIn(loop, tasks') > CopiesIn(loop, tasks)}

\* C17: when the delay sleep of an iteration returns and r is drawn, the loop
\* attempts a start (its skippedTransactions reset, the total kept) exactly
\* when r < probabilityOfStart, and otherwise sends nothing and carries both
\* skip counters incremented by one into its next iteration; so with
\* probabilityOfStart = 0 no loop ever awaits Authorize or StartTransaction,
\* and with probabilityOfStart = 1 no skip counter ever leaves 0.
C17_StartIffDrawBelowProbability ==
  [][/\ \A task \in BagToSet(tasks), r \in Draws :
          (delayWake(task, r) /\ LoopFrame) =>
            IF r < station.probabilityOfStart
              THEN Gained = {[task EXCEPT !.pc = IF station.hasAuthorizedTags
                                                      /\ station.requireAuthorize
                                                   THEN "sendAuthorize"
                                                   ELSE "sendStartTransaction",
                                          !.transactionId = 0,
                                          !.skippedTransactions = 0]}
              ELSE /\ \A loop \in Gained :
                        /\ loop.pc \notin StartRequestPcs
                        /\ loop.connectorId = task.connectorId =>
                             /\ loop.skippedTransactions = task.skippedTransactions + 1
                             /\ loop.skippedTransactionsTotal
                                  = task.skippedTransactionsTotal + 1
                   /\ whileHead(task.connectorId, connectorsStartStatus)
                          \in {"initPoll", "delay"} =>
                        \E loop \in Gained : loop.connectorId = task.connectorId
     /\ station.probabilityOfStart = 0 =>
          \A loop \in BagToSet(tasks') :
            loop.pc \notin StartRequestPcs \cup {"rejectSleep", "durationSleep",
                                                  "sendStopTransaction"}
     /\ station.probabilityOfStart = 2 =>
          \A loop \in BagToSet(tasks') :
            loop.skippedTransactions = 0 /\ loop.skippedTransactionsTotal = 0]_vars
\* With probabilityOfStart = 1/2 a loop has skipped one iteration and attempts
\* a start in a later one.
C17_Witness ==
  /\ station.probabilityOfStart = 1
  /\ \E loop \in BagToSet(tasks) :
       /\ loop.pc \in StartRequestPcs
       /\ loop.skippedTransactions = 0
       /\ loop.skippedTransactionsTotal = 1

\* The station has id tags and its ATG requires them to be authorized.
AuthorizeFirst == station.hasAuthorizedTags /\ station.requireAuthorize

\* C19: startTransaction sends Authorize exactly when the station has id tags
\* and requireAuthorize is set, and otherwise sends StartTransaction at once;
\* after Authorize it sends StartTransaction exactly when the status is
\* ACCEPTED; on any other status the loop sends nothing, sleeps the wait after
\* a rejection and goes on to its next iteration with its skip counters as
\* they were.
C19_StartTransactionDecisionTree ==
  [][/\ \A task \in BagToSet(tasks), r \in Draws :
          (delayWake(task, r) /\ LoopFrame /\ r < station.probabilityOfStart) =>
            \E loop \in Gained :
              /\ loop.connectorId = task.connectorId
              /\ loop.pc = IF AuthorizeFirst THEN "sendAuthorize"
                                             ELSE "sendStartTransaction"
     /\ \A loop \in Gained :
          /\ loop.pc = "sendAuthorize" =>
               AuthorizeFirst /\ ResumesAt(loop.connectorId, "delay")
          /\ loop.pc = "sendStartTransaction" =>
               IF AuthorizeFirst THEN ResumesAt(loop.connectorId, "sendAuthorize")
                                 ELSE ResumesAt(loop.connectorId, "delay")
     /\ \A task \in BagToSet(tasks), result \in Results :
          (authorizeReturn(task, result) /\ LoopFrame) =>
            Gained = CASE result = ACCEPTED -> {Suspend(task, "sendStartTransaction", 0)}
                       [] result = OCPPError -> {}
                       [] OTHER -> {Suspend(task, "rejectSleep", 0)}
     /\ \A task \in BagToSet(tasks) :
          (rejectWake(task) /\ LoopFrame) =>
            /\ \A loop \in Gained :
                 /\ loop.pc \notin StartRequestPcs
                 /\ loop.connectorId = task.connectorId =>
                      /\ loop.skippedTransactions = task.skippedTransactions
                      /\ loop.skippedTransactionsTotal = task.skippedTransactionsTotal
            /\ whileHead(task.connectorId, connectorsStartStatus) \in {"initPoll", "delay"} =>
                 \E loop \in Gained : loop.connectorId = task.connectorId]_vars
\* After a skipped iteration a start was attempted on a station that
\* authorizes first and was not accepted: the loop is in the wait after the
\* rejection, its skippedTransactions reset and its total as the skip left it.
C19_Witness ==
  /\ AuthorizeFirst
  /\ lastTransactionId = 0
  /\ lastRunDate > startDate
  /\ \E loop \in BagToSet(tasks) :
       /\ loop.pc = "rejectSleep"
       /\ loop.skippedTransactions = 0
       /\ loop.skippedTransactionsTotal = 1

\* The step runs the loop task up to the head of an iteration of its loop.
ReachesHead(task) ==
  /\ LoopFrame
  /\ \/ startConnector(task)
     \/ rejectWake(task)
     \/ \E r \in Draws : r >= station.probabilityOfStart /\ delayWake(task, r)
     \/ ~transactionStarted[task.connectorId] /\ durationWake(task)
     \/ \E result \in AuthorizationStatus : stopTransactionReturn(task, result)
\* The flag the loop reads at that head: startConnector has just set it.
FlagAtHead(task) == task.pc = "scheduled" \/ connectorsStartStatus[task.connectorId]

\* C20: a loop that reaches the head of an iteration with its flag set after
\* stopDate leaves started false and the flag of every positive connector
\* false, and exits without a sleep or a start request, whether or not the
\* station is registered and available.
C20_DeadlineStopsController ==
  [][\A task \in BagToSet(tasks) :
       (ReachesHead(task) /\ FlagAtHead(task) /\ now > stopDate) =>
         /\ ~started'
         /\ \A c \in PositiveConnectors : ~connectorsStartStatus'[c]
         /\ \A loop \in Gained : loop.pc = "finalStopTransaction"]_vars

\* C18: once the generator has been stopped, every loop of its run eventually
\* ends: no loop task remains, whatever await each was suspended in.
C18_StoppedLoopsTerminate ==
  (startDate # NoDate /\ ~started) ~> (tasks = EmptyBag)

\* The branch the loop task takes at the head it reaches in this step.
HeadOf(task) ==
  whileHead(task.connectorId,
            IF task.pc = "scheduled"
              THEN [connectorsStartStatus EXCEPT ![task.connectorId] = TRUE]
              ELSE connectorsStartStatus)

\* C21: a loop that leaves at its head because the station is not registered
\* or its connector is unavailable leaves started and the flag of every other
\* connector as they were and takes no other loop task away; a loop step at a
\* head turns started off only on the deadline and station-unavailable exits.
C21_ConnectorExitLeavesControllerRunning ==
  [][\A task \in BagToSet(tasks) :
       ReachesHead(task) =>
         /\ HeadOf(task) \in {"notRegistered", "connectorUnavailable"} =>
              /\ started' = started
              /\ \A c \in PositiveConnectors \ {task.connectorId} :
                   connectorsStartStatus'[c] = connectorsStartStatus[c]
              /\ \A loop \in BagToSet(tasks) :
                   CopiesIn(loop, tasks')
                     >= CopiesIn(loop, tasks) - (IF loop = task THEN 1 ELSE 0)
         /\ (started /\ ~started') => HeadOf(task) \in StopExits]_vars
\* The loop of connector 1 has left because its connector is unavailable: the
\* generator is still started and the loop of connector 2 is still there.
C21_Witness ==
  /\ 2 \in PositiveConnectors
  /\ ~station.connectorAvailable[1]
  /\ started
  /\ connectorsStartStatus[2]
  /\ CountAt(tasks, 1, BodyPcs \cup {"finalStopTransaction"}) = 0
  /\ CountAt(tasks, 2, BodyPcs \ {"scheduled"}) = 1

\* C22: a step in which an awaited request of a loop raises takes that one
\* loop task away and nothing else: started, every connector's flag, the
\* dates of the run and every other loop task are as they were.
C22_RaisedFailureIsContained ==
  [][op' = "raised" =>
       /\ UNCHANGED <<started, connectorsStartStatus, startDate, lastRunDate, stopDate>>
       /\ \E task \in BagToSet(tasks) : tasks' = Remove(tasks, task)]_vars
\* A request of the loop of one connector has raised while the loop of the
\* other connector is suspended: the generator is started, both flags set.
C22_Witness ==
  /\ op = "raised"
  /\ started
  /\ \A c \in PositiveConnectors : connectorsStartStatus[c]
  /\ \E c \in PositiveConnectors :
       /\ CountAt(tasks, c, BodyPcs \cup {"finalStopTransaction"}) = 0
       /\ \E d \in PositiveConnectors \ {c} : CountAt(tasks, d, BodyPcs \ {"scheduled"}) = 1

\* ------------------------------ properties of the payload handlers receive
\* An accepted request that names a procedure of the table.
AcceptedKnown(uuid) == Accepted(uuid) /\ requests[uuid][1].command \in commandHandlers
AtgCommands ==
  {"START_AUTOMATIC_TRANSACTION_GENERATOR", "STOP_AUTOMATIC_TRANSACTION_GENERATOR"}

\* C23: the handler of every request that passed the early returns and names
\* a known procedure is called with a payload without hashId and hashIds, with
\* the request's connectorIds exactly when the request had them and the
\* procedure starts or stops the ATG, and with every other field as received;
\* no other request reaches a handler.
C23_HandlerPayloadIsCleaned ==
  \A uuid \in Uuids :
    /\ AcceptedKnown(uuid) <=> handlers[uuid] # Absent
    /\ handlers[uuid] # Absent =>
         LET call == handlers[uuid][1]
             received == requests[uuid][1]
         IN /\ call.command = received.command
            /\ call.requestPayload.hashId = Absent
            /\ call.requestPayload.hashIds = Absent
            /\ call.requestPayload.connectorIds =
                 IF received.command \in AtgCommands
                   THEN received.payload.connectorIds ELSE Absent
            /\ call.requestPayload.idTag = received.payload.idTag
\* An ATG request addressed to this station with connectorIds reached its
\* handler with them, and another request with connectorIds and an idTag
\* reached its handler without them.
C23_Witness ==
  \E uuid, other \in Uuids :
    /\ handlers[uuid] # Absent
    /\ requests[uuid][1].payload.hashIds # Absent
    /\ handlers[uuid][1].requestPayload.connectorIds # Absent
    /\ handlers[other] # Absent
    /\ requests[other][1].payload.connectorIds # Absent
    /\ handlers[other][1].requestPayload.connectorIds = Absent
    /\ handlers[other][1].requestPayload.idTag # Absent

\* ------------------------------------- properties of the loops of a connector
\* C25: no positive connector ever has two loop tasks inside the loop, each
\* past its first head and suspended in an await of the body.
C25_OneLoopPerConnector ==
  \A c \in PositiveConnectors : CountAt(tasks, c, BodyPcs \ {"scheduled"}) <= 1

\* C26: the flag of a positive connector is set only while a loop task of the
\* connector is pending, suspended in the loop or in its trailing
\* stopTransaction.
C26_FlagSetOnlyWhileLoopRuns ==
  \A c \in PositiveConnectors :
    connectorsStartStatus[c] => CountAt(tasks, c, BodyPcs \cup {"finalStopTransaction"}) > 0

\* The step brings the loop task to a call of a send method of
\* ocppRequestService: in startTransaction after the draw or after an accepted
\* Authorize, in the stopTransaction after the duration sleep, or in the
\* trailing stopTransaction with a transaction open.
CallsRequestService(task) ==
  /\ LoopFrame
  /\ \/ \E r \in Draws : r < station.probabilityOfStart /\ delayWake(task, r)
     \/ authorizeReturn(task, ACCEPTED)
     \/ transactionStarted[task.connectorId] /\ durationWake(task)
     \/ /\ ReachesHead(task)
        /\ HeadOf(task) \notin {"initPoll", "delay"}
        /\ transactionStarted'[task.connectorId]

\* C24: whenever a loop comes to a call of Authorize, StartTransaction or
\* StopTransaction, the trailing one included, the OCPP request service of the
\* station is there.
C24_RequestsOnlyWithService ==
  [][\A task \in BagToSet(tasks) : CallsRequestService(task) => station.service]_vars

====
